---------------------------- MODULE Spec2Model ----------------------------
(***************************************************************************)
(* CADAC modular vehicle simulation: the module-variable store, the event  *)
(* engine of the BALL3 example, the termination module and the component   *)
(* modules that publish to the store.                                      *)
(*                                                                         *)
(* Real-valued slots hold integers that count hundredths (a stored 150 is *)
(* 1.5), so that the (int) cast of the C++ code is a truncation and not    *)
(* the identity.  Integer-valued slots hold plain integers.                *)
(***************************************************************************)
EXTENDS Integers, Sequences, FiniteSets, TLC

VARIABLES
    ball,            \* the module-variable array (Variable *ball)
    pc,              \* phase of the executive
    mi,              \* position in the module list within the phase
    order,           \* the module list of the scenario, in declared order
    sim_time,        \* simulation time of the executive
    event_time,      \* time since the last event
    int_step,        \* integration step
    defined,         \* per slot: the def functions that defined it
    written,         \* per slot: the module functions that wrote it
    stamp,           \* per slot: the last writing module and its step time
    event_ptr_list,  \* events loaded from the scenario, indexed from 0
    nevent,          \* index of the next event to watch
    event_total,     \* number of events still to come (0 once all occurred)
    event_epoch,     \* flag: an event occurred in the last call of event()
    fired            \* per event: how often its new values were loaded

vars == <<ball, pc, mi, order, sim_time, event_time, int_step, defined,
          written, stamp, event_ptr_list, nevent, event_total, event_epoch, fired>>

\* the variables of the executive
execvars ==
    <<mi, order, sim_time, event_time, int_step, defined, written, stamp>>

---------------------------------------------------------------------------
(* Bounds of the model *)

MaxEvents == 2

---------------------------------------------------------------------------
(* The Variable class: one slot of the store *)

\* (int) cast of a real counted in hundredths: truncation toward zero
Trunc(v) == IF v >= 0 THEN v \div 100 ELSE -((-v) \div 100)

\* Variable::init for a real slot
RealSlot(name, mod, role) ==
    [name |-> name, type |-> "real", ival |-> 0, rval |-> 0,
     vec |-> <<0, 0, 0>>, mod |-> mod, role |-> role]

\* Variable::init for an integer slot
IntSlot(name, mod, role) ==
    [name |-> name, type |-> "int", ival |-> 0, rval |-> 0,
     vec |-> <<0, 0, 0>>, mod |-> mod, role |-> role]

\* Variable::init for a 3x1 vector slot
VecSlot(name, mod, role) ==
    [name |-> name, type |-> "vec", ival |-> 0, rval |-> 0,
     vec |-> <<0, 0, 0>>, mod |-> mod, role |-> role]

\* the slot every index holds before any module defines it
EmptySlot ==
    [name |-> "empty", type |-> "empty", ival |-> 0, rval |-> 0,
     vec |-> <<0, 0, 0>>, mod |-> " ", role |-> " "]

\* Variable::gets(double): stores the real value
Gets(b, index, value) == [b EXCEPT ![index].rval = value]

\* Variable::gets(int): stores the integer value
GetsInt(b, index, value_int) == [b EXCEPT ![index].ival = value_int]

\* Variable::gets_vec(Matrix): stores the 3x1 vector
GetsVec(b, index, VEC) == [b EXCEPT ![index].vec = VEC]

---------------------------------------------------------------------------
(* BALL3 example: the store the event engine works on *)

\* slots of the store that scenario events watch and reassign
EventSlots == {5, 10, 22}

\* the store after the module definitions
EventBall ==
    [i \in EventSlots |->
        CASE i = 5  -> IntSlot("stop", "kinematics", "exec")
          [] i = 10 -> RealSlot("cd", "forces", "data")
          [] i = 22 -> RealSlot("altitude", "kinematics", "out")]

\* values modules publish to real slots and to integer slots
RealVals == {0, 50, 150}
IntVals  == {-1, 0, 1}

\* threshold of an IF line: 0.5
CritVals == {50}

\* the (index, value) lists between IF and ENDIF
RotorMenu ==
    { << [index |-> 10, value |-> 150] >>,
      << [index |-> 5, value |-> 150], [index |-> 10, value |-> 50] >>,
      << [index |-> 22, value |-> 0], [index |-> 22, value |-> 150] >> }

\* one loaded Event object
EventSet ==
    [watch : {5, 22}, oper : {"<", "=", ">"}, value : CritVals,
     rotor : RotorMenu]

---------------------------------------------------------------------------
(* Ball::event *)

\* mutant: the flag of the previous call is kept
KeepEventFlag(epoch) == epoch

\* the event flag at entry of Ball::event
InitEventFlag(epoch) == FALSE

\* the test "has the event occurred", on the watch variable of event e
\* mutant: the integer comparison uses the uncast threshold
CriteriaUncast(b, e) ==
    LET w == b[e.watch]
        isint == w.type = "int"
    IN  CASE e.oper = "<" -> IF isint THEN 100 * w.ival < e.value
                                      ELSE w.rval < e.value
          [] e.oper = "=" -> IF isint THEN 100 * w.ival = e.value
                                      ELSE w.rval = e.value
          [] e.oper = ">" -> IF isint THEN 100 * w.ival > e.value
                                      ELSE w.rval > e.value
          [] OTHER -> FALSE

Criteria(b, e) ==
    LET w == b[e.watch]
        isint == w.type = "int"
        current_value_int == w.ival
        crit_value_int == Trunc(e.value)
        current_value == w.rval
    IN  CASE e.oper = "<" -> IF isint THEN current_value_int < crit_value_int
                                      ELSE current_value < e.value
          [] e.oper = "=" -> IF isint THEN current_value_int = crit_value_int
                                      ELSE current_value = e.value
          [] e.oper = ">" -> IF isint THEN current_value_int > crit_value_int
                                      ELSE current_value > e.value
          [] OTHER -> FALSE

\* one pass of the loop that loads the new values: the integer value is
\* stored for an "int" slot, and the real value is stored for every slot
LoadValue(b, index, value) ==
    LET b1 == IF b[index].type = "int"
                THEN GetsInt(b, index, Trunc(value))
                ELSE b
    IN  Gets(b1, index, value)

RECURSIVE LoadRotor(_, _, _)
LoadRotor(b, rotor, i) ==
    IF i > Len(rotor) THEN b
    ELSE LoadRotor(LoadValue(b, rotor[i].index, rotor[i].value), rotor, i + 1)

\* increment of the event number after an event occurred
SameEvent(n) == n

NextEvent(n) == n + 1

\* 'event_total' is reset to zero after the last event has occurred
NextTotal(n, total) == IF n = total THEN 0 ELSE total

\* mutant: any event that has not fired and whose criteria is met fires
eventAnyOrder ==
    /\ pc = "event"
    /\ pc' = "modules"
    /\ UNCHANGED <<event_ptr_list, execvars>>
    /\ LET ready == {k \in DOMAIN event_ptr_list :
                        fired[k] = 0 /\ Criteria(ball, event_ptr_list[k])}
       IN  IF ready = {}
           THEN /\ event_epoch' = FALSE
                /\ UNCHANGED <<ball, nevent, fired, event_total>>
           ELSE \E k \in ready :
                    /\ event_epoch' = TRUE
                    /\ ball' = LoadRotor(ball, event_ptr_list[k].rotor, 1)
                    /\ fired' = [fired EXCEPT ![k] = @ + 1]
                    /\ UNCHANGED <<nevent, event_total>>

event ==
    /\ pc = "event"
    /\ pc' = "modules"
    /\ UNCHANGED <<event_ptr_list, execvars>>
    /\ LET epoch0 == InitEventFlag(event_epoch)
       IN  IF event_total = 0
           THEN /\ event_epoch' = epoch0
                /\ UNCHANGED <<ball, nevent, fired>>
                /\ UNCHANGED event_total
           ELSE LET e == event_ptr_list[nevent]
                    epoch1 == epoch0 \/ Criteria(ball, e)
                IN  /\ event_epoch' = epoch1
                    /\ IF epoch1
                       THEN /\ ball' = LoadRotor(ball, e.rotor, 1)
                            /\ fired' = [fired EXCEPT ![nevent] = @ + 1]
                            /\ nevent' = NextEvent(nevent)
                            /\ event_total' =
                                   NextTotal(NextEvent(nevent), event_total)
                       ELSE UNCHANGED <<ball, nevent, fired, event_total>>

\* the module functions of one step publish new values to the store
modules ==
    /\ pc = "modules"
    /\ pc' = "event"
    /\ \E alt \in RealVals, cd \in RealVals, st \in IntVals :
           ball' = GetsInt(Gets(Gets(ball, 22, alt), 10, cd), 5, st)
    /\ UNCHANGED <<event_ptr_list, nevent, event_total, event_epoch, fired>>
    /\ UNCHANGED execvars

\* the executive is not part of the model of one engine
NoExecutive ==
    /\ mi = 0
    /\ order = <<>>
    /\ sim_time = 0
    /\ event_time = 0
    /\ int_step = 0
    /\ defined = <<>>
    /\ written = <<>>
    /\ stamp = <<>>

\* the state after Ball::Ball and Ball::vehicle_data
Init ==
    /\ ball = EventBall
    /\ pc = "modules"
    /\ NoExecutive
    /\ \E n \in 0..MaxEvents : event_ptr_list \in [0..(n - 1) -> EventSet]
    /\ nevent = 0
    /\ event_total = Cardinality(DOMAIN event_ptr_list)
    /\ event_epoch = FALSE
    /\ fired = [k \in DOMAIN event_ptr_list |-> 0]

Next == modules \/ event

Spec == Init /\ [][Next]_vars

---------------------------------------------------------------------------
(* MyProjectile: the termination module *)

\* no scenario events are loaded
NoEvents ==
    /\ event_ptr_list = <<>>
    /\ nevent = 0
    /\ event_total = 0
    /\ event_epoch = FALSE
    /\ fired = <<>>

\* slots the termination module defines, and the slots of other modules
\* it reads
TermSlots == {0, 5, 6, 7, 8, 9, 22, 80, 162}

\* Ball::def_termination, with the inputs defined by their modules
TermBall ==
    [i \in TermSlots |->
        CASE i = 0   -> RealSlot("time", "time", "exec")
          [] i = 5   -> IntSlot("stop", "termination", "exec")
          [] i = 6   -> IntSlot("lconv", "termination", "exec")
          [] i = 7   -> RealSlot("endtime", "termination", "data")
          [] i = 8   -> RealSlot("min_alt", "termination", "data")
          [] i = 9   -> RealSlot("min_range", "termination", "data")
          [] i = 22  -> RealSlot("altitude", "kinematics", "out")
          [] i = 80  -> RealSlot("dta", "seeker", "out")
          [] i = 162 -> IntSlot("intercept_flag", "intercept", "out")]

\* values of the DATA section and values the other modules publish
EndtimeVals  == {200, 400}
MinAltVals   == {-200, 0}
MinRangeVals == {0, 200}
TimeVals     == {0, 200, 400}
AltVals      == {-200, 0, 200}
DtaVals      == {0, 100, 200, 300}
FlagVals     == {0, 1}

\* 1. Time limit exceeded
TimeLimit(r, time, endtime) ==
    IF time >= endtime THEN [stop |-> 1, lconv |-> 1] ELSE r

\* mutant: the criteria are chained with 'else if', the first one wins
GroundImpactElseIf(r, altitude, min_alt) ==
    IF r.stop = 1 THEN r
    ELSE IF altitude <= min_alt THEN [stop |-> 1, lconv |-> 2] ELSE r

\* mutant: strict comparison of the altitude
GroundImpactStrict(r, altitude, min_alt) ==
    IF altitude < min_alt THEN [stop |-> 1, lconv |-> 2] ELSE r

\* 2. Ground impact (altitude below minimum)
GroundImpact(r, altitude, min_alt) ==
    IF altitude <= min_alt THEN [stop |-> 1, lconv |-> 2] ELSE r

\* mutant: strict comparison of the range
ProximityStrict(r, dta, min_range) ==
    IF dta < min_range /\ dta > 0 THEN [stop |-> 1, lconv |-> 3] ELSE r

\* 3. Target proximity (range below minimum)
Proximity(r, dta, min_range) ==
    IF dta <= min_range /\ dta > 0 THEN [stop |-> 1, lconv |-> 3] ELSE r

\* mutant: the reason is recorded but the stop flag is not set
InterceptNoStop(r, intercept_flag) ==
    IF intercept_flag = 1 THEN [stop |-> r.stop, lconv |-> 4] ELSE r

\* 4. Intercept detected (from intercept module)
Intercept(r, intercept_flag) ==
    IF intercept_flag = 1 THEN [stop |-> 1, lconv |-> 4] ELSE r

\* Ball::termination: the store after the module has run
Termination(b) ==
    LET endtime == b[7].rval
        min_alt == b[8].rval
        min_range == b[9].rval
        time == b[0].rval
        altitude == b[22].rval
        dta == b[80].rval
        intercept_flag == b[162].ival
        r0 == [stop |-> 0, lconv |-> 0]
        r1 == TimeLimit(r0, time, endtime)
        r2 == GroundImpact(r1, altitude, min_alt)
        r3 == Proximity(r2, dta, min_range)
        r4 == Intercept(r3, intercept_flag)
    IN  GetsInt(GetsInt(b, 5, r4.stop), 6, r4.lconv)

termination ==
    /\ pc = "termination"
    /\ pc' = "modules"
    /\ ball' = Termination(ball)
    /\ UNCHANGED <<event_ptr_list, nevent, event_total, event_epoch, fired>>
    /\ UNCHANGED execvars

\* the modules that run before termination publish its inputs
TermInputs ==
    /\ pc = "modules"
    /\ pc' = "termination"
    /\ \E t \in TimeVals, alt \in AltVals, dta \in DtaVals, f \in FlagVals :
           ball' = GetsInt(Gets(Gets(Gets(ball, 0, t), 22, alt), 80, dta),
                           162, f)
    /\ UNCHANGED <<event_ptr_list, nevent, event_total, event_epoch, fired>>
    /\ UNCHANGED execvars

\* the store after the definitions and the DATA section of the scenario
InitTerm ==
    /\ \E et \in EndtimeVals, ma \in MinAltVals, mr \in MinRangeVals :
           ball = Gets(Gets(Gets(TermBall, 7, et), 8, ma), 9, mr)
    /\ pc = "modules"
    /\ NoExecutive
    /\ NoEvents

NextTerm == TermInputs \/ termination

SpecTerm == InitTerm /\ [][NextTerm]_vars

---------------------------------------------------------------------------
(* Real arithmetic on hundredths *)

\* quotient truncated toward zero
TDiv(n, d) == IF n >= 0 THEN n \div d ELSE -((-n) \div d)

\* product of two reals
RMul(x, y) == TDiv(x * y, 100)

\* quotient of two reals
RDiv(x, y) == IF y > 0 THEN TDiv(x * 100, y) ELSE -TDiv(x * 100, -y)

\* Matrix operator+ on 3x1 vectors
VecAdd(A, B) == <<A[1] + B[1], A[2] + B[2], A[3] + B[3]>>

\* Matrix operator* by a scalar
VecScale(A, x) == <<RMul(A[1], x), RMul(A[2], x), RMul(A[3], x)>>

RECURSIVE SqrtIter(_, _, _)
SqrtIter(n, lo, hi) ==
    IF hi - lo <= 1 THEN lo
    ELSE LET mid == (lo + hi) \div 2
         IN  IF mid * mid <= n THEN SqrtIter(n, mid, hi)
                               ELSE SqrtIter(n, lo, mid)

\* the largest magnitude and the largest component the squares of which
\* the integers of the model hold
AbsoluteMax == 46340
ComponentMax == 26754

\* Matrix::absolute of a 3x1 vector, rounded down to a hundredth; a vector
\* with a component beyond ComponentMax has the magnitude AbsoluteMax
VecAbsolute(A) ==
    IF \E j \in 1..3 : A[j] > ComponentMax \/ A[j] < -ComponentMax
    THEN AbsoluteMax
    ELSE LET n == A[1] * A[1] + A[2] * A[2] + A[3] * A[3]
         IN  SqrtIter(n, 0, IF n < AbsoluteMax THEN n + 1 ELSE AbsoluteMax)

---------------------------------------------------------------------------
(* Sims composed of component modules under the executive *)

MaxTime == 2000

\* the part of the store the composed modules use
SimSlots == {0, 1, 5, 6, 7, 8, 9, 10, 11, 12, 13, 14, 15, 16, 17, 18, 20, 21,
             22, 23, 24, 25, 26, 27, 28, 29, 33, 36, 37, 38, 39, 40, 41, 42,
             43, 44, 45, 52, 80, 162, 200, 201, 202, 203, 204, 205, 206, 207,
             208, 503}

\* Vehicle::def_time
DefTime(b) ==
    [b EXCEPT ![0] = RealSlot("time", "time", "exec"),
              ![1] = RealSlot("event_time", "time", "exec")]

\* Vehicle::init_time
InitTime(b, t) == Gets(Gets(b, 0, t), 1, 0)

\* mutant: the time since the last event is published as simulation time
TimeManagementSwapped(b, t, et) == Gets(Gets(b, 0, et), 1, t)

\* Vehicle::time_management
TimeManagement(b, t, et) == Gets(Gets(b, 0, t), 1, et)

\* Ball::def_environment of MyProjectile
DefEnvironment(b) ==
    [b EXCEPT ![0] = [RealSlot("grav", "environment", "out")
                         EXCEPT !.type = "D"],
              ![12] = RealSlot("rho", "out", "")]

\* Ball::environment of MyProjectile
Environment(b) == Gets(Gets(b, 0, b[0].rval), 12, b[12].rval)

\* Vehicle::def_environment of gravity_constant
DefGravity(b) ==
    [b EXCEPT ![0] = [RealSlot("grav", "environment", "out")
                         EXCEPT !.type = "D"]]

\* Vehicle::environment of gravity_constant
Gravity(b) == Gets(b, 0, 981)

\* Vehicle::def_kinematics of kinematics_3dof_flat
DefKinematics(b) ==
    [b EXCEPT ![20] = VecSlot("SBEL", "state", ""),
              ![21] = VecSlot("VBEL", "state", ""),
              ![22] = RealSlot("altitude", "out", "scrn"),
              ![23] = RealSlot("sbel1", "data", ""),
              ![24] = RealSlot("sbel2", "data", ""),
              ![25] = RealSlot("sbel3", "data", ""),
              ![26] = RealSlot("vbel1", "data", ""),
              ![27] = RealSlot("vbel2", "data", ""),
              ![28] = RealSlot("vbel3", "data", "")]

\* Vehicle::init_kinematics of kinematics_3dof_flat
InitKinematics(b) ==
    LET SBEL == <<b[23].rval, b[24].rval, b[25].rval>>
        VBEL == <<b[26].rval, b[27].rval, b[28].rval>>
        altitude == -b[25].rval
    IN  Gets(GetsVec(GetsVec(b, 20, SBEL), 21, VBEL), 22, altitude)

\* mutant: at the ground the velocity is kept
KinematicsNoStop(b, dt) ==
    LET FSPB == b[14].vec
        ABEL == FSPB
        VBEL1 == VecAdd(b[21].vec, VecScale(ABEL, dt))
        SBEL1 == VecAdd(b[20].vec, VecScale(VBEL1, dt))
        ground == -SBEL1[3] <= 0
        altitude == IF ground THEN 0 ELSE -SBEL1[3]
        SBEL == IF ground THEN <<SBEL1[1], SBEL1[2], 0>> ELSE SBEL1
    IN  Gets(GetsVec(GetsVec(b, 20, SBEL), 21, VBEL1), 22, altitude)

\* mutant: the position is advanced by the trapezoidal rule on the velocity
KinematicsTrapezoid(b, dt) ==
    LET FSPB == b[14].vec
        ABEL == FSPB
        VBEL1 == VecAdd(b[21].vec, VecScale(ABEL, dt))
        SBEL1 == VecAdd(b[20].vec,
                        VecScale(VecAdd(b[21].vec, VBEL1), RMul(50, dt)))
        ground == -SBEL1[3] <= 0
        altitude == IF ground THEN 0 ELSE -SBEL1[3]
        SBEL == IF ground THEN <<SBEL1[1], SBEL1[2], 0>> ELSE SBEL1
        VBEL == IF ground THEN <<0, 0, 0>> ELSE VBEL1
    IN  Gets(GetsVec(GetsVec(b, 20, SBEL), 21, VBEL), 22, altitude)

\* Vehicle::kinematics of kinematics_3dof_flat
Kinematics(b, dt) ==
    LET FSPB == b[14].vec
        ABEL == FSPB
        VBEL1 == VecAdd(b[21].vec, VecScale(ABEL, dt))
        SBEL1 == VecAdd(b[20].vec, VecScale(VBEL1, dt))
        ground == -SBEL1[3] <= 0
        altitude == IF ground THEN 0 ELSE -SBEL1[3]
        SBEL == IF ground THEN <<SBEL1[1], SBEL1[2], 0>> ELSE SBEL1
        VBEL == IF ground THEN <<0, 0, 0>> ELSE VBEL1
    IN  Gets(GetsVec(GetsVec(b, 20, SBEL), 21, VBEL), 22, altitude)

\* Ball::def_forces of the merged forces module
DefForces(b) ==
    [b EXCEPT ![10] = RealSlot("cd", "data", ""),
              ![11] = RealSlot("area", "data", ""),
              ![13] = RealSlot("dvbe", "out", "scrn"),
              ![14] = VecSlot("FSPA", "forces", "out")]

\* Ball::forces of the merged forces module
Forces(b) ==
    LET cd == b[10].rval
        area == b[11].rval
        grav == b[0].rval
        rho == b[12].rval
        VBEL == b[21].vec
        dvbe == VecAbsolute(VBEL)
        q == RMul(RMul(50, rho), RMul(dvbe, dvbe))
        k == RMul(RMul(q, cd), area)
        FDRAG == IF dvbe > 1
                   THEN <<-RMul(RDiv(VBEL[1], dvbe), k),
                          -RMul(RDiv(VBEL[2], dvbe), k),
                          -RMul(RDiv(VBEL[3], dvbe), k)>>
                   ELSE <<0, 0, 0>>
        FSPB == <<FDRAG[1], FDRAG[2], FDRAG[3] + grav>>
    IN  GetsVec(Gets(b, 13, dvbe), 14, FSPB)

\* Vehicle::def_forces of drag_simple
DefDrag(b) ==
    [b EXCEPT ![10] = RealSlot("cd", "data", ""),
              ![11] = RealSlot("area", "data", ""),
              ![13] = RealSlot("dvbe", "out", "scrn"),
              ![14] = VecSlot("FSPB", "out", "")]

\* Vehicle::forces of drag_simple
DragForces(b) ==
    LET cd == b[10].rval
        area == b[11].rval
        grav == b[0].rval
        rho == b[12].rval
        VBEL == b[21].vec
        dvbe == VecAbsolute(VBEL)
        drag_mag == RMul(RMul(RMul(RMul(RMul(50, rho), dvbe), dvbe), cd),
                         area)
        VBEL_unit == IF dvbe > 10 THEN VecScale(VBEL, RDiv(100, dvbe))
                                  ELSE <<0, 0, 0>>
        FSPB == << -RMul(drag_mag, VBEL_unit[1]),
                   -RMul(drag_mag, VBEL_unit[2]),
                   -RMul(drag_mag, VBEL_unit[3]) - grav >>
    IN  GetsVec(Gets(b, 13, dvbe), 14, FSPB)

\* Ball::def_termination
DefTermination(b) ==
    [b EXCEPT ![7] = RealSlot("endtime", "termination", "data"),
              ![8] = RealSlot("min_alt", "termination", "data"),
              ![9] = RealSlot("min_range", "termination", "data"),
              ![5] = IntSlot("stop", "termination", "exec"),
              ![6] = IntSlot("lconv", "termination", "exec")]

\* standard value of gravity acceleration
AGRAV == 981

\* trapezoidal integration of a scalar state
Integrate(dydx_new, dydx, y, dt) == y + RMul(RMul(50, dt), dydx_new + dydx)

\* Vehicle::def_propulsion of propulsion_staging; a 3x3 slot holds the
\* diagonal of the inertia tensor in its vec field
DefPropulsion(b) ==
    [b EXCEPT ![10] = IntSlot("mprop", "propulsion", "data"),
              ![11] = RealSlot("acowl", "propulsion", "data"),
              ![15] = RealSlot("vmass", "propulsion", "out"),
              ![16] = RealSlot("vmass0", "propulsion", "data"),
              ![17] = RealSlot("xcg", "propulsion", "out"),
              ![18] = [VecSlot("IBBB", "propulsion", "out")
                          EXCEPT !.type = "mat"],
              ![21] = RealSlot("fmass0", "propulsion", "data"),
              ![22] = RealSlot("fmasse", "propulsion", "state"),
              ![23] = RealSlot("fmassd", "propulsion", "state"),
              ![24] = RealSlot("aexit", "propulsion", "data"),
              ![25] = RealSlot("spi", "propulsion", "data"),
              ![26] = RealSlot("thrust", "propulsion", "out"),
              ![27] = RealSlot("fmassr", "propulsion", "save"),
              ![28] = RealSlot("xcg_0", "propulsion", "data"),
              ![29] = RealSlot("xcg_1", "propulsion", "data"),
              ![33] = RealSlot("fuel_flow_rate", "propulsion", "data"),
              ![36] = RealSlot("vmass0_st", "propulsion", "data"),
              ![37] = RealSlot("fmass0_st", "propulsion", "data"),
              ![38] = RealSlot("moi_roll_0", "propulsion", "data"),
              ![39] = RealSlot("moi_roll_1", "propulsion", "data"),
              ![40] = RealSlot("moi_trans_0", "propulsion", "data"),
              ![41] = RealSlot("moi_trans_1", "propulsion", "data"),
              ![42] = IntSlot("mfreeze_prop", "propulsion", "save"),
              ![43] = RealSlot("thrustf", "propulsion", "save"),
              ![44] = RealSlot("vmassf", "propulsion", "save"),
              ![45] = [VecSlot("IBBBF", "propulsion", "save")
                          EXCEPT !.type = "mat"]]

\* mutant: the engine runs on until the remaining fuel is negative
EngineShutdownStrict(mprop, fmassr) == mprop > 0 /\ fmassr < 0

\* engine shutdown when fuel exhausted
EngineShutdown(mprop, fmassr) == mprop > 0 /\ fmassr <= 0

\* Vehicle::propulsion of propulsion_staging
\* mutant: the frozen values are captured on every step of a freeze
FreezeCaptureAlways(mfreeze, mfreeze_saved) == mfreeze # 0

\* the freeze block captures when mfreeze differs from its saved value
FreezeCapture(mfreeze, mfreeze_saved) ==
    mfreeze # 0 /\ mfreeze # mfreeze_saved

Propulsion(b, dt) ==
    LET psl == 10132500
        mprop == b[10].ival
        vmass0 == b[16].rval
        fmass0 == b[21].rval
        aexit == b[24].rval
        spi == b[25].rval
        xcg_0 == b[28].rval
        xcg_1 == b[29].rval
        fuel_flow_rate == b[33].rval
        press == b[52].rval
        mfreeze == b[503].ival
        active == mprop > 0
        const == mprop = 3 \/ mprop = 4
        \* thrust before shutdown and freeze
        thrust1 == IF active /\ const
                     THEN RMul(RMul(spi, fuel_flow_rate), AGRAV)
                          + RMul(psl - press, aexit)
                     ELSE 0
        IBBB0 == IF const THEN <<b[38].rval, b[40].rval, b[40].rval>>
                          ELSE <<0, 0, 0>>
        IBBB1 == IF const THEN <<b[39].rval, b[41].rval, b[41].rval>>
                          ELSE <<0, 0, 0>>
        \* fuel consumption integration
        burning == active /\ spi # 0
        fmassd_next == IF burning THEN RDiv(thrust1, RMul(spi, AGRAV)) ELSE 0
        fmasse == IF mprop = 0 THEN 0
                  ELSE IF burning
                       THEN Integrate(fmassd_next, b[23].rval, b[22].rval, dt)
                       ELSE b[22].rval
        fmassd == IF mprop = 0 THEN 0
                  ELSE IF burning THEN fmassd_next ELSE b[23].rval
        \* mass, fuel remaining, inertia tensor, cg
        vmass1 == IF active THEN vmass0 - fmasse ELSE b[15].rval
        fmassr == IF mprop = 0 THEN 0
                  ELSE IF active THEN fmass0 - fmasse ELSE b[27].rval
        mass_ratio == IF active THEN RDiv(fmasse, fmass0) ELSE 0
        IBBB1a == IF active
                    THEN VecAdd(IBBB0,
                                VecScale(VecAdd(IBBB1, VecScale(IBBB0, -100)),
                                         mass_ratio))
                    ELSE b[18].vec
        xcg == IF active THEN xcg_0 + RMul(xcg_1 - xcg_0, mass_ratio)
                         ELSE b[17].rval
        shutdown == EngineShutdown(mprop, fmassr)
        mprop_out == IF shutdown THEN 0 ELSE mprop
        thrust2 == IF shutdown THEN 0 ELSE thrust1
        \* freeze variables for autopilot response calculations
        capture == FreezeCapture(mfreeze, b[42].ival)
        mfreeze_prop == IF mfreeze = 0 THEN 0 ELSE mfreeze
        thrustf == IF capture THEN thrust2 ELSE b[43].rval
        vmassf == IF capture THEN vmass1 ELSE b[44].rval
        IBBBF == IF capture THEN IBBB1a ELSE b[45].vec
        thrust == IF mfreeze = 0 THEN thrust2 ELSE thrustf
        vmass == IF mfreeze = 0 THEN vmass1 ELSE vmassf
        IBBB == IF mfreeze = 0 THEN IBBB1a ELSE IBBBF
    IN  [b EXCEPT ![22].rval = fmasse,
                  ![23].rval = fmassd,
                  ![10].ival = mprop_out,
                  ![27].rval = fmassr,
                  ![42].ival = mfreeze_prop,
                  ![43].rval = thrustf,
                  ![44].rval = vmassf,
                  ![45].vec = IBBBF,
                  ![15].rval = vmass,
                  ![17].rval = xcg,
                  ![18].vec = IBBB,
                  ![26].rval = thrust]

\* the def function of module m
\* Ball::def_kinematics of the BALL3 example
DefKinematicsEx(b) ==
    [b EXCEPT ![20] = VecSlot("SBEL", "state", ""),
              ![21] = VecSlot("VBEL", "state", ""),
              ![22] = RealSlot("altitude", "out", "scrn")]

\* Ball::init_kinematics of the BALL3 example: the initial values are read
\* from slots 23 to 28, and are stored back
InitKinematicsEx(b) ==
    LET b1 == InitKinematics(b)
    IN  Gets(Gets(Gets(Gets(Gets(Gets(b1, 23, b[23].rval), 24, b[24].rval),
                            25, b[25].rval), 26, b[26].rval),
                  27, b[27].rval), 28, b[28].rval)

\* Ball::def_forces of the BALL3 example
DefForcesEx(b) ==
    [b EXCEPT ![10] = RealSlot("cd", "data", ""),
              ![11] = RealSlot("area", "data", ""),
              ![12] = RealSlot("rho", "diag", ""),
              ![13] = RealSlot("dvbe", "out", "scrn"),
              ![14] = VecSlot("FSPB", "out", "")]

\* the slot Ball::forces of the BALL3 example reads into its local VBEL
ForcesVbelIndex == 20

\* Ball::forces of the BALL3 example
ForcesEx(b) ==
    LET cd == b[10].rval
        area == b[11].rval
        grav == b[0].rval
        VBEL == b[ForcesVbelIndex].vec
        rho == 122
        dvbe == VecAbsolute(VBEL)
        drag_mag == RMul(RMul(RMul(RMul(50, rho), RMul(dvbe, dvbe)), cd),
                         area)
        VBEL_unit == IF dvbe > 10
                       THEN <<RDiv(VBEL[1], dvbe), RDiv(VBEL[2], dvbe),
                              RDiv(VBEL[3], dvbe)>>
                       ELSE <<0, 0, 0>>
        FSPB == << -RMul(drag_mag, VBEL_unit[1]),
                   -RMul(drag_mag, VBEL_unit[2]),
                   -RMul(drag_mag, VBEL_unit[3]) - grav >>
    IN  GetsVec(Gets(Gets(b, 12, rho), 13, dvbe), 14, FSPB)

\* Vehicle::def_target of target_const_velocity
DefTarget(b) ==
    [b EXCEPT ![202] = RealSlot("stel1", "target", "data"),
              ![203] = RealSlot("stel2", "target", "data"),
              ![204] = RealSlot("stel3", "target", "data"),
              ![205] = RealSlot("vtel1", "target", "data"),
              ![206] = RealSlot("vtel2", "target", "data"),
              ![207] = RealSlot("vtel3", "target", "data"),
              ![208] = VecSlot("STEL", "target", "state"),
              ![200] = VecSlot("STEL", "target", "out"),
              ![201] = VecSlot("VTEL", "target", "out")]

\* Vehicle::init_target
InitTarget(b) ==
    LET STEL == <<b[202].rval, b[203].rval, b[204].rval>>
        VTEL == <<b[205].rval, b[206].rval, b[207].rval>>
    IN  GetsVec(GetsVec(GetsVec(b, 208, STEL), 200, STEL), 201, VTEL)

\* Vehicle::target: the position integrated from the constant velocity
Target(b, dt) ==
    LET VTEL == <<b[205].rval, b[206].rval, b[207].rval>>
        STEL == [j \in 1..3 |-> Integrate(VTEL[j], 0, b[208].vec[j], dt)]
    IN  GetsVec(GetsVec(GetsVec(b, 208, STEL), 200, STEL), 201, VTEL)

DefModule(m, b) ==
    CASE m = "time"        -> DefTime(b)
      [] m = "environment" -> DefEnvironment(b)
      [] m = "gravity"     -> DefGravity(b)
      [] m = "kinematics"  -> DefKinematics(b)
      [] m = "forces"      -> DefForces(b)
      [] m = "drag"        -> DefDrag(b)
      [] m = "target"      -> DefTarget(b)
      [] m = "kinematics_ex" -> DefKinematicsEx(b)
      [] m = "forces_ex"   -> DefForcesEx(b)
      [] m = "termination" -> DefTermination(b)
      [] m = "propulsion"  -> DefPropulsion(b)

\* the slots the def function of module m defines
DefSlots(m) ==
    CASE m = "time"        -> {0, 1}
      [] m = "environment" -> {0, 12}
      [] m = "gravity"     -> {0}
      [] m = "kinematics"  -> {20, 21, 22, 23, 24, 25, 26, 27, 28}
      [] m = "forces"      -> {10, 11, 13, 14}
      [] m = "drag"        -> {10, 11, 13, 14}
      [] m = "target"      -> {200, 201, 202, 203, 204, 205, 206, 207, 208}
      [] m = "kinematics_ex" -> {20, 21, 22}
      [] m = "forces_ex"   -> {10, 11, 12, 13, 14}
      [] m = "termination" -> {5, 6, 7, 8, 9}
      [] m = "propulsion"  -> {10, 11, 15, 16, 17, 18, 21, 22, 23, 24, 25, 26,
                               27, 28, 29, 33, 36, 37, 38, 39, 40, 41, 42, 43,
                               44, 45}

\* the init function of module m
InitModule(m, b, t) ==
    CASE m = "time"       -> InitTime(b, t)
      [] m = "kinematics" -> InitKinematics(b)
      [] m = "target"     -> InitTarget(b)
      [] m = "kinematics_ex" -> InitKinematicsEx(b)
      [] OTHER            -> b

\* the exec function of module m
ExecModule(m, b, dt, t, et) ==
    CASE m = "time"        -> TimeManagement(b, t, et)
      [] m = "environment" -> Environment(b)
      [] m = "gravity"     -> Gravity(b)
      [] m = "kinematics"  -> Kinematics(b, dt)
      [] m = "forces"      -> Forces(b)
      [] m = "drag"        -> DragForces(b)
      [] m = "target"      -> Target(b, dt)
      [] m = "kinematics_ex" -> Kinematics(b, dt)
      [] m = "forces_ex"   -> ForcesEx(b)
      [] m = "termination" -> Termination(b)
      [] m = "propulsion"  -> Propulsion(b, dt)

\* the slots the exec function of module m loads
ExecWrites(m) ==
    CASE m = "time"        -> {0, 1}
      [] m = "environment" -> {0, 12}
      [] m = "gravity"     -> {0}
      [] m = "kinematics"  -> {20, 21, 22}
      [] m = "forces"      -> {13, 14}
      [] m = "drag"        -> {13, 14}
      [] m = "target"      -> {200, 201, 208}
      [] m = "kinematics_ex" -> {20, 21, 22}
      [] m = "forces_ex"   -> {12, 13, 14}
      [] m = "termination" -> {5, 6}
      [] m = "propulsion"  -> {10, 15, 17, 18, 22, 23, 26, 27, 42, 43, 44, 45}

\* the slots the exec function of module m reads
ExecReads(m) ==
    CASE m = "time"        -> {}
      [] m = "environment" -> {0, 12}
      [] m = "gravity"     -> {0}
      [] m = "kinematics"  -> {14, 20, 21}
      [] m = "forces"      -> {0, 10, 11, 12, 21}
      [] m = "drag"        -> {0, 10, 11, 12, 21}
      [] m = "target"      -> {205, 206, 207, 208}
      [] m = "kinematics_ex" -> {14, 20, 21}
      [] m = "forces_ex"   -> {0, 10, 11, ForcesVbelIndex}
      [] m = "termination" -> {0, 7, 8, 9, 22, 80, 162}
      [] m = "propulsion"  -> {10, 15, 16, 17, 18, 21, 22, 23, 24, 25, 27, 28,
                               29, 33, 38, 39, 40, 41, 42, 43, 44, 45, 52, 503,
                               0}

\* Ball::vehicle_data: 'name = value' is stored in every slot of that name
LoadByName(b, name, data) ==
    [i \in DOMAIN b |->
        IF b[i].name = name
        THEN IF b[i].type = "int" THEN [b[i] EXCEPT !.ival = Trunc(data)]
                                  ELSE [b[i] EXCEPT !.rval = data]
        ELSE b[i]]

RECURSIVE LoadData(_, _, _)
LoadData(b, data, i) ==
    IF i > Len(data) THEN b
    ELSE LoadData(LoadByName(b, data[i].name, data[i].value), data, i + 1)

\* DATA sections of the scenario
FlightData ==
    { << [name |-> "endtime", value |-> et],
         [name |-> "min_alt", value |-> ma],
         [name |-> "vbel1", value |-> 3536],
         [name |-> "vbel3", value |-> v3] >> :
      et \in {400, 800, 1000}, ma \in {-1000, 0},
      v3 \in {-3536, -1962, -981} }

PropData ==
    { << [name |-> "mprop", value |-> mp],
         [name |-> "vmass0", value |-> 1000],
         [name |-> "fmass0", value |-> fm],
         [name |-> "spi", value |-> 29000],
         [name |-> "fuel_flow_rate", value |-> ffr],
         [name |-> "moi_roll_0", value |-> 1500],
         [name |-> "moi_roll_1", value |-> 300],
         [name |-> "moi_trans_0", value |-> 15000],
         [name |-> "moi_trans_1", value |-> 3000],
         [name |-> "xcg_0", value |-> 350],
         [name |-> "xcg_1", value |-> 420] >> :
      mp \in {0, 300, 400}, fm \in {400, 450, 500}, ffr \in {100, 150} }

TargetData ==
    { << [name |-> "endtime", value |-> et],
         [name |-> "stel1", value |-> 100000],
         [name |-> "stel3", value |-> s3],
         [name |-> "vtel1", value |-> v1] >> :
      et \in {400, 800}, s3 \in {-50000, 0}, v1 \in {-2000, 0, 2000} }

DataMenu == FlightData \cup PropData \cup TargetData

\* the watch variable pointer before any name has matched (NULL)
NullVar == -1

\* the module-variable of the watched name: the last slot of that name, and
\* the pointer left by the previous IF block when no slot has that name
WatchVariable(b, name, variable) ==
    LET match == {m \in DOMAIN b : b[m].name = name}
    IN  IF match = {} THEN variable
        ELSE CHOOSE m \in match : \A n \in match : n <= m

\* the (index, value) entry of one line between IF and ENDIF: a name that
\* no slot carries adds no entry
RotorEntry(b, line) ==
    LET match == {k \in DOMAIN b : b[k].name = line.name}
    IN  IF match = {} THEN <<>>
        ELSE << [index |-> CHOOSE k \in match : \A n \in match : k <= n,
                 value |-> line.value] >>

RECURSIVE EventRotor(_, _, _)
EventRotor(b, lines, i) ==
    IF i > Len(lines) THEN <<>>
    ELSE RotorEntry(b, lines[i]) \o EventRotor(b, lines, i + 1)

\* the watch variable of the e-th IF block (blocks are counted from 1)
RECURSIVE WatchOf(_, _, _)
WatchOf(b, ifs, e) ==
    IF e = 0 THEN NullVar
    ELSE WatchVariable(b, ifs[e].name, WatchOf(b, ifs, e - 1))

\* Ball::vehicle_data, loading events: the Event objects of the IF blocks
LoadEvents(b, ifs) ==
    [e \in 0..(Len(ifs) - 1) |->
        [watch |-> WatchOf(b, ifs, e + 1),
         oper  |-> ifs[e + 1].oper,
         value |-> ifs[e + 1].value,
         rotor |-> EventRotor(b, ifs[e + 1].lines, 1),
         name  |-> ifs[e + 1].name]]

\* IF blocks of the scenarios
IfAltitude ==
    [name |-> "altitude", oper |-> ">", value |-> 2000,
     lines |-> << [name |-> "cd", value |-> 100] >>]

IfDta ==
    [name |-> "dta", oper |-> "<", value |-> 500,
     lines |-> << [name |-> "area", value |-> 150],
                  [name |-> "chute", value |-> 100] >>]

IfVBEL ==
    [name |-> "VBEL", oper |-> "<", value |-> 100,
     lines |-> << [name |-> "area", value |-> 150] >>]

IfStop ==
    [name |-> "stop", oper |-> "=", value |-> 150,
     lines |-> << [name |-> "min_alt", value |-> 0] >>]

IfFuel ==
    [name |-> "fmassr", oper |-> "<", value |-> 250,
     lines |-> << [name |-> "mfreeze_prop", value |-> 0] >>]

\* the event blocks a scenario with module list o may carry
IfMenu(o) ==
    LET mods == {o[k] : k \in 1..Len(o)}
    IN  IF "drag" \in mods THEN { <<>>, <<IfAltitude>> }
        ELSE IF "kinematics" \in mods
        THEN { <<>>, <<IfAltitude>>, <<IfAltitude, IfDta>>, <<IfDta>>,
               <<IfVBEL>> }
        ELSE IF "propulsion" \in mods THEN { <<>>, <<IfFuel>> }
        ELSE { <<>>, <<IfStop>> }

\* advancing the position in the module list
StepModule(next) ==
    IF mi = Len(order) THEN pc' = next /\ mi' = 1
                       ELSE pc' = pc /\ mi' = mi + 1

\* phase def: the def function of every module
def ==
    /\ pc = "def"
    /\ ball' = DefModule(order[mi], ball)
    /\ defined' = [i \in DOMAIN defined |->
                      IF i \in DefSlots(order[mi])
                      THEN defined[i] \cup {order[mi]} ELSE defined[i]]
    /\ StepModule("load")
    /\ UNCHANGED <<order, sim_time, event_time, int_step, written, stamp>>
    /\ UNCHANGED <<event_ptr_list, nevent, event_total, event_epoch, fired>>

\* phase load: the DATA section of the scenario
load ==
    /\ pc = "load"
    /\ \E data \in DataMenu : ball' = LoadData(ball, data, 1)
    /\ \E ifs \in IfMenu(order) :
           /\ event_ptr_list' = LoadEvents(ball, ifs)
           /\ event_total' = Len(ifs)
           /\ fired' = [k \in 0..(Len(ifs) - 1) |-> 0]
    /\ pc' = "init"
    /\ UNCHANGED execvars
    /\ UNCHANGED <<nevent, event_epoch>>

\* phase init: the init function of every module
init ==
    /\ pc = "init"
    /\ ball' = InitModule(order[mi], ball, sim_time)
    /\ StepModule("exec")
    /\ UNCHANGED <<order, sim_time, event_time, int_step, defined, written,
                   stamp>>
    /\ UNCHANGED <<event_ptr_list, nevent, event_total, event_epoch, fired>>

\* mutant: the modules of a step are called in reverse of the declared order
execReversed ==
    /\ pc = "exec"
    /\ LET m == order[Len(order) + 1 - mi]
       IN  /\ ball' = ExecModule(m, ball, int_step, sim_time, event_time)
           /\ written' = [i \in DOMAIN written |->
                             IF i \in ExecWrites(m)
                             THEN written[i] \cup {m} ELSE written[i]]
           /\ stamp' = [i \in DOMAIN stamp |->
                           IF i \in ExecWrites(m)
                           THEN [by |-> m, t |-> sim_time] ELSE stamp[i]]
    /\ StepModule("advance")
    /\ UNCHANGED <<order, sim_time, event_time, int_step, defined>>
    /\ UNCHANGED <<event_ptr_list, nevent, event_total, event_epoch, fired>>

\* one module of the step, in declared order
exec ==
    /\ pc = "exec"
    /\ ball' = ExecModule(order[mi], ball, int_step, sim_time, event_time)
    /\ written' = [i \in DOMAIN written |->
                      IF i \in ExecWrites(order[mi])
                      THEN written[i] \cup {order[mi]} ELSE written[i]]
    /\ stamp' = [i \in DOMAIN stamp |->
                    IF i \in ExecWrites(order[mi])
                    THEN [by |-> order[mi], t |-> sim_time] ELSE stamp[i]]
    /\ StepModule("advance")
    /\ UNCHANGED <<order, sim_time, event_time, int_step, defined>>
    /\ UNCHANGED <<event_ptr_list, nevent, event_total, event_epoch, fired>>

\* end of the module calls of a step: time advances
advance ==
    /\ pc = "advance"
    /\ sim_time' = sim_time + int_step
    /\ event_time' = event_time + int_step
    /\ pc' = "event"
    /\ UNCHANGED <<ball, mi, order, int_step, defined, written, stamp>>
    /\ UNCHANGED <<event_ptr_list, nevent, event_total, event_epoch, fired>>

\* the loop ends when stop is set
LoopNext(b, t) == IF b[5].ival = 1 \/ t >= MaxTime THEN "done" ELSE "exec"

\* the call of Ball::event at the step boundary; the event time is reset
\* when an event occurred.  Reading the type of the watch variable through
\* a NULL pointer is undefined: the run faults, or the test reads garbage
event_step ==
    /\ pc = "event"
    /\ UNCHANGED <<event_ptr_list, mi, order, sim_time, int_step, defined,
                   written, stamp>>
    /\ LET epoch0 == InitEventFlag(event_epoch)
       IN  IF event_total = 0
           THEN /\ event_epoch' = epoch0
                /\ pc' = LoopNext(ball, sim_time)
                /\ UNCHANGED <<ball, nevent, fired, event_total, event_time>>
           ELSE LET e == event_ptr_list[nevent]
                IN  \/ /\ e.watch = NullVar
                       /\ pc' = "fault"
                       /\ event_epoch' = epoch0
                       /\ UNCHANGED <<ball, nevent, fired, event_total,
                                      event_time>>
                    \/ \E crit \in IF e.watch = NullVar
                                    THEN BOOLEAN
                                    ELSE {Criteria(ball, e)} :
                          LET epoch1 == epoch0 \/ crit
                              b1 == IF epoch1 THEN LoadRotor(ball, e.rotor, 1)
                                              ELSE ball
                          IN  /\ event_epoch' = epoch1
                              /\ ball' = b1
                              /\ pc' = LoopNext(b1, sim_time)
                              /\ IF epoch1
                                 THEN /\ fired' =
                                            [fired EXCEPT ![nevent] = @ + 1]
                                      /\ nevent' = NextEvent(nevent)
                                      /\ event_total' =
                                            NextTotal(NextEvent(nevent),
                                                      event_total)
                                      /\ event_time' = 0
                                 ELSE UNCHANGED <<nevent, fired, event_total,
                                                  event_time>>

NextSim == def \/ load \/ init \/ exec \/ advance \/ event_step

\* the executive before the def phase
InitSim ==
    /\ ball = [i \in SimSlots |-> EmptySlot]
    /\ pc = "def"
    /\ mi = 1
    /\ sim_time = 0
    /\ event_time = 0
    /\ int_step = 100
    /\ defined = [i \in SimSlots |-> {}]
    /\ written = [i \in SimSlots |-> {}]
    /\ stamp = [i \in SimSlots |-> [by |-> "none", t |-> 0]]
    /\ NoEvents

\* module lists of a ballistic sim with time and termination
FlightOrders ==
    { <<"time", "gravity", "kinematics", "forces", "termination">>,
      <<"time", "gravity", "forces", "kinematics", "termination">>,
      <<"gravity", "kinematics", "forces", "time", "termination">> }

InitFlight == InitSim /\ order \in FlightOrders

SpecFlight == InitFlight /\ [][NextSim]_vars

\* module lists of the ballistic configuration with drag_simple
BallisticOrders ==
    { <<"gravity", "drag", "kinematics">>,
      <<"gravity", "kinematics", "drag">> }

InitBallistic == InitSim /\ order \in BallisticOrders

SpecBallistic == InitBallistic /\ [][NextSim]_vars

\* Ball::document: the error code listed in front of slot i, 'A' for a name
\* an earlier slot carries already, '*' for a location defined more than once
Document(b, d) ==
    [i \in DOMAIN b |->
        IF b[i].name # "empty"
           /\ \E j \in DOMAIN b : j < i /\ b[j].name = b[i].name
        THEN "A"
        ELSE IF Cardinality(d[i]) > 1 THEN "*" ELSE " "]

\* module lists of a sim with the constant velocity target
TargetOrders ==
    { <<"time", "target", "termination">>,
      <<"target", "time", "termination">>,
      <<"time", "termination", "target">> }

InitTargetSim == InitSim /\ order \in TargetOrders

SpecTarget == InitTargetSim /\ [][NextSim]_vars

\* module lists of the BALL3 example, gravity being the environment
ExampleOrders ==
    { <<"gravity", "kinematics_ex", "forces_ex">>,
      <<"gravity", "forces_ex", "kinematics_ex">>,
      <<"kinematics_ex", "forces_ex", "gravity">> }

InitExample == InitSim /\ order \in ExampleOrders

SpecExample == InitExample /\ [][NextSim]_vars

\* module lists of MyProjectile
ProjOrders ==
    { <<"environment", "time", "termination">>,
      <<"time", "environment", "termination">>,
      <<"time", "termination", "environment">>,
      <<"termination", "time", "environment">> }

InitProj == InitSim /\ order \in ProjOrders

SpecProj == InitProj /\ [][NextSim]_vars

\* module lists of a sim with the staging propulsion component
PropOrders ==
    { <<"time", "propulsion">>, <<"propulsion", "time">> }

InitProp == InitSim /\ order \in PropOrders

SpecProp == InitProp /\ [][NextSim]_vars

---------------------------------------------------------------------------
(* Thrust vector control: tvc_simple driven by the commands of control *)

\* x * RAD and x * DEG
RadOf(x) == TDiv(x * 1745, 100000)
DegOf(x) == TDiv(x * 5730, 100)

\* sign of x: -1 for a negative x, +1 otherwise
Sign(x) == IF x < 0 THEN -1 ELSE 1

Fabs(x) == IF x < 0 THEN -x ELSE x

\* sine and cosine of an angle in radians, by their power series
Sin(x) == x - TDiv(x * x * x, 60000)
Cos(x) == 100 - TDiv(x * x, 200)

TvcSlots == {0, 17, 26, 520, 521, 900, 902, 904, 905, 906, 908, 909, 910,
             911, 912, 913, 916, 917, 918, 919, 920, 921, 922, 923}

\* Vehicle::def_tvc, with the inputs defined by their modules
TvcBall ==
    [i \in TvcSlots |->
        CASE i = 0   -> RealSlot("time", "time", "exec")
          [] i = 17  -> RealSlot("xcg", "propulsion", "out")
          [] i = 26  -> RealSlot("thrust", "propulsion", "out")
          [] i = 520 -> RealSlot("delecx", "control", "out")
          [] i = 521 -> RealSlot("delrcx", "control", "out")
          [] i = 900 -> IntSlot("mtvc", "tvc", "data")
          [] i = 902 -> RealSlot("tvclimx", "tvc", "data")
          [] i = 904 -> RealSlot("dtvclimx", "tvc", "data")
          [] i = 905 -> RealSlot("wntvc", "tvc", "data")
          [] i = 906 -> RealSlot("zettvc", "tvc", "data")
          [] i = 908 -> RealSlot("gtvc", "tvc", "data,diag")
          [] i = 909 -> RealSlot("parm", "tvc", "data")
          [] i = 910 -> VecSlot("FPB", "tvc", "out")
          [] i = 911 -> VecSlot("FMPB", "tvc", "out")
          [] i = 912 -> RealSlot("etax", "tvc", "diag")
          [] i = 913 -> RealSlot("zetx", "tvc", "diag")
          [] i = 916 -> RealSlot("etasd", "tvc", "state")
          [] i = 917 -> RealSlot("zetad", "tvc", "state")
          [] i = 918 -> RealSlot("etas", "tvc", "state")
          [] i = 919 -> RealSlot("zeta", "tvc", "state")
          [] i = 920 -> RealSlot("detasd", "tvc", "state")
          [] i = 921 -> RealSlot("dzetad", "tvc", "state")
          [] i = 922 -> RealSlot("detas", "tvc", "state")
          [] i = 923 -> RealSlot("dzeta", "tvc", "state")]

\* DATA section of the TVC scenario, and the thrust and cg of propulsion
TvcData ==
    { << [name |-> "mtvc", value |-> m],
         [name |-> "gtvc", value |-> 100],
         [name |-> "tvclimx", value |-> 1000],
         [name |-> "dtvclimx", value |-> 5000],
         [name |-> "wntvc", value |-> 100],
         [name |-> "zettvc", value |-> 70],
         [name |-> "parm", value |-> 500],
         [name |-> "thrust", value |-> 1000],
         [name |-> "xcg", value |-> 350] >> : m \in {0, 100, 200} }

\* end of the TVC runs
MaxTvcTime == 500

\* pitch and yaw commands of the control module, in degrees
PitchCmds == {-2000, 100, 2000}
YawCmds == {0, 2000}

\* one nozzle channel of Vehicle::tvc_scnd: position s, its derivative sd,
\* rate ds and its derivative dsd, command c
NozzleChannel(s, sd, ds, dsd, c, tvclimx, dtvclimx, wntvc, zettvc, dt) ==
    LET limited == Fabs(s) > RadOf(tvclimx)
        s1 == IF limited THEN RadOf(tvclimx) * Sign(s) ELSE s
        ds1 == IF limited /\ s1 * ds > 0 THEN 0 ELSE ds
        iflag == Fabs(ds1) > RadOf(dtvclimx)
        ds2 == IF iflag THEN RadOf(dtvclimx) * Sign(ds1) ELSE ds1
        sd_new == ds2
        s2 == Integrate(sd_new, sd, s1, dt)
        es == c - s2
        dsd_new == RMul(RMul(wntvc, wntvc), es)
                   - RMul(RMul(RMul(200, zettvc), wntvc), sd_new)
        ds3 == Integrate(dsd_new, dsd, ds2, dt)
        dsd1 == IF iflag /\ ds3 * dsd_new > 0 THEN 0 ELSE dsd_new
    IN  [s |-> s2, sd |-> sd_new, ds |-> ds3, dsd |-> dsd1]

\* Vehicle::tvc_scnd: the store after the nozzle states are loaded
TvcScnd(b, etac, zetc, dt) ==
    LET p == NozzleChannel(b[918].rval, b[916].rval, b[922].rval,
                           b[920].rval, etac, b[902].rval, b[904].rval,
                           b[905].rval, b[906].rval, dt)
        y == NozzleChannel(b[919].rval, b[917].rval, b[923].rval,
                           b[921].rval, zetc, b[902].rval, b[904].rval,
                           b[905].rval, b[906].rval, dt)
    IN  [b EXCEPT ![916].rval = p.sd, ![917].rval = y.sd,
                  ![918].rval = p.s, ![919].rval = y.s,
                  ![920].rval = p.dsd, ![921].rval = y.dsd,
                  ![922].rval = p.ds, ![923].rval = y.ds]

\* Vehicle::tvc
Tvc(b, dt) ==
    LET mtvc == b[900].ival
        gtvc == b[908].rval
        arm == b[909].rval - b[17].rval
        thrust == b[26].rval
        etac == RadOf(RMul(gtvc, b[520].rval))
        zetc == RadOf(RMul(gtvc, b[521].rval))
        b1 == IF mtvc >= 2 THEN TvcScnd(b, etac, zetc, dt) ELSE b
        eta == IF mtvc >= 2 THEN b1[918].rval
               ELSE IF mtvc = 1 THEN etac ELSE 0
        zet == IF mtvc >= 2 THEN b1[919].rval
               ELSE IF mtvc = 1 THEN zetc ELSE 0
        FPB == << RMul(RMul(Cos(eta), Cos(zet)), thrust),
                  RMul(RMul(Cos(eta), Sin(zet)), thrust),
                  -RMul(Sin(eta), thrust) >>
        FMPB == << 0, RMul(arm, FPB[3]), -RMul(arm, FPB[2]) >>
    IN  IF mtvc = 0 THEN b
        ELSE Gets(Gets(GetsVec(GetsVec(b1, 910, FPB), 911, FMPB),
                       912, DegOf(eta)), 913, DegOf(zet))

\* the control module publishes the commands of the step
control ==
    /\ pc = "modules"
    /\ sim_time < MaxTvcTime
    /\ pc' = "tvc"
    /\ \E delecx \in PitchCmds, delrcx \in YawCmds :
           ball' = Gets(Gets(ball, 520, delecx), 521, delrcx)
    /\ UNCHANGED <<event_ptr_list, nevent, event_total, event_epoch, fired>>
    /\ UNCHANGED execvars

\* the tvc module of the step, and the time advance
tvc ==
    /\ pc = "tvc"
    /\ pc' = "modules"
    /\ ball' = Tvc(ball, int_step)
    /\ sim_time' = sim_time + int_step
    /\ UNCHANGED <<event_ptr_list, nevent, event_total, event_epoch, fired>>
    /\ UNCHANGED <<mi, order, event_time, int_step, defined, written, stamp>>

\* integration steps of the TVC scenario
TvcSteps == {100, 200}

\* the store after the definitions and the DATA section of the scenario
InitTvc ==
    /\ \E data \in TvcData : ball = LoadData(TvcBall, data, 1)
    /\ pc = "modules"
    /\ mi = 0
    /\ order = <<>>
    /\ sim_time = 0
    /\ event_time = 0
    /\ int_step \in TvcSteps
    /\ defined = <<>>
    /\ written = <<>>
    /\ stamp = <<>>
    /\ NoEvents

NextTvc == control \/ tvc

SpecTvc == InitTvc /\ [][NextTvc]_vars

---------------------------------------------------------------------------
(* Intercept detection: intercept_simple fed by the seeker *)

\* end of the engagement runs
MaxIcptTime == 500

IcptSlots == {0, 80, 81, 160, 161, 162, 163, 164}

\* Vehicle::def_intercept, with the inputs defined by their modules
IcptBall ==
    [i \in IcptSlots |->
        CASE i = 0   -> RealSlot("time", "time", "exec")
          [] i = 80  -> RealSlot("dta", "seeker", "out")
          [] i = 81  -> RealSlot("dvta", "seeker", "out")
          [] i = 160 -> RealSlot("miss", "intercept", "out")
          [] i = 161 -> RealSlot("tintercept", "intercept", "out")
          [] i = 162 -> IntSlot("intercept_flag", "intercept", "out")
          [] i = 163 -> RealSlot("detect_range", "intercept", "data")
          [] i = 164 -> RealSlot("dvta_prev", "intercept", "save")]

\* Vehicle::init_intercept
InitIntercept(b) ==
    Gets(GetsInt(Gets(Gets(b, 160, 0), 161, 0), 162, 0), 164, 0)

\* values of detect_range, and the range and closing velocity of the seeker
DetectRangeVals == {0, 500}
RangeVals == {100, 300, 600}
ClosingVals == {-500, 0, 500}

\* mutant: a detection is not held against a later crossing
DetectedAgain(dta, detect_range, intercept_flag, dvta_prev, dvta) ==
    dta < detect_range /\ dvta_prev > 0 /\ dvta <= 0

\* within the detection sphere, not already detected, and the closing
\* velocity changes from positive (closing) to negative (opening)
Detected(dta, detect_range, intercept_flag, dvta_prev, dvta) ==
    dta < detect_range /\ intercept_flag = 0 /\ dvta_prev > 0 /\ dvta <= 0

\* Vehicle::intercept
InterceptModule(b) ==
    LET detect_range == b[163].rval
        time == b[0].rval
        dta == b[80].rval
        dvta == b[81].rval
        dvta_prev == b[164].rval
        hit == Detected(dta, detect_range, b[162].ival, dvta_prev, dvta)
        intercept_flag == IF hit THEN 1 ELSE b[162].ival
        miss == IF hit THEN dta ELSE b[160].rval
        tintercept == IF hit THEN time ELSE b[161].rval
    IN  Gets(GetsInt(Gets(Gets(b, 160, miss), 161, tintercept),
                     162, intercept_flag), 164, dvta)

\* the time and seeker modules publish the inputs of the step
seeker ==
    /\ pc = "modules"
    /\ sim_time < MaxIcptTime
    /\ pc' = "intercept"
    /\ \E dta \in RangeVals, dvta \in ClosingVals :
           ball' = Gets(Gets(Gets(ball, 0, sim_time), 80, dta), 81, dvta)
    /\ UNCHANGED <<event_ptr_list, nevent, event_total, event_epoch, fired>>
    /\ UNCHANGED execvars

\* the intercept module of the step, and the time advance
intercept ==
    /\ pc = "intercept"
    /\ pc' = "modules"
    /\ ball' = InterceptModule(ball)
    /\ sim_time' = sim_time + int_step
    /\ UNCHANGED <<event_ptr_list, nevent, event_total, event_epoch, fired>>
    /\ UNCHANGED <<mi, order, event_time, int_step, defined, written, stamp>>

\* the store after the definitions, the DATA section and the init phase
InitIcpt ==
    /\ \E dr \in DetectRangeVals :
           ball = InitIntercept(Gets(IcptBall, 163, dr))
    /\ pc = "modules"
    /\ mi = 0
    /\ order = <<>>
    /\ sim_time = 0
    /\ event_time = 0
    /\ int_step = 100
    /\ defined = <<>>
    /\ written = <<>>
    /\ stamp = <<>>
    /\ NoEvents

NextIcpt == seeker \/ intercept

SpecIcpt == InitIcpt /\ [][NextIcpt]_vars

---------------------------------------------------------------------------
(* Properties of the event engine *)

\* the watched slot of event e satisfies its relation against its threshold
\* (an integer slot is compared with the threshold cast to an integer)
Holds(b, e) ==
    LET isint == b[e.watch].type = "int"
        v == IF isint THEN b[e.watch].ival ELSE b[e.watch].rval
        t == IF isint THEN Trunc(e.value) ELSE e.value
    IN  \/ e.oper = "<" /\ v < t
        \/ e.oper = "=" /\ v = t
        \/ e.oper = ">" /\ v > t

\* event k loads its new values in this step
Fires(k) == fired'[k] = fired[k] + 1

\* C1: each bound event fires at most once over a run, whatever values its
\* watched slot takes after it fired
C1_FiresAtMostOnce == \A k \in DOMAIN fired : fired[k] <= 1

\* an event has fired, its condition holds again, and a later call of the
\* event engine left it alone
C1_Witness ==
    \E k \in DOMAIN fired :
        /\ fired[k] = 1
        /\ pc = "modules"
        /\ ~event_epoch
        /\ Holds(ball, event_ptr_list[k])

\* C2 as claimed: every event that has not fired and whose condition holds
\* fires in the call, whatever its position in the declaration order
C2_Original ==
    [][pc = "event" =>
         \A k \in DOMAIN fired :
             (fired[k] = 0 /\ Holds(ball, event_ptr_list[k])) => Fires(k)]_vars

\* C2 amended: a call fires exactly the next event in declaration order
\* (index nevent), and it does so if and only if that event's condition
\* holds; a later event is not tested before its predecessors have fired
C2_NextEventFires ==
    [][pc = "event" =>
         \A k \in DOMAIN fired :
             Fires(k) <=> /\ fired[k] = 0
                          /\ k = nevent
                          /\ Holds(ball, event_ptr_list[k])]_vars

\* a second-declared event has fired
C2_Witness == \E k \in DOMAIN fired : k >= 1 /\ fired[k] = 1

\* a reassignment that respects the slot kind: an integer slot receives the
\* truncated value only, a real slot the real value
KindLoadValue(b, index, value) ==
    IF b[index].type = "int" THEN GetsInt(b, index, Trunc(value))
                             ELSE Gets(b, index, value)

RECURSIVE KindLoadRotor(_, _, _)
KindLoadRotor(b, rotor, i) ==
    IF i > Len(rotor) THEN b
    ELSE KindLoadRotor(KindLoadValue(b, rotor[i].index, rotor[i].value),
                       rotor, i + 1)

\* C3: a firing event applies its reassignments in list order respecting
\* the slot kind (no real-valued write to an integer slot) and changes no
\* other slot
C3_KindRespected ==
    [][(pc = "event" /\ \E k \in DOMAIN fired : Fires(k)) =>
         ball' = KindLoadRotor(ball, event_ptr_list[nevent].rotor, 1)]_vars

\* C4: after every call of the event engine the event flag is true if and
\* only if an event fired in that call
C4_EpochIffFired ==
    [][pc = "event" =>
         (event_epoch' <=> \E k \in DOMAIN fired : Fires(k))]_vars

\* all events have fired and a later call has cleared the flag
C4_Witness ==
    /\ event_total = 0
    /\ DOMAIN fired # {}
    /\ \A k \in DOMAIN fired : fired[k] = 1
    /\ pc = "modules"
    /\ ~event_epoch

---------------------------------------------------------------------------
(* Properties of the termination module *)

\* the reason codes of the stop predicates satisfied in store b
Satisfied(b) ==
    {c \in 1..4 :
        \/ c = 1 /\ b[0].rval >= b[7].rval
        \/ c = 2 /\ b[22].rval <= b[8].rval
        \/ c = 3 /\ b[80].rval <= b[9].rval /\ b[80].rval > 0
        \/ c = 4 /\ b[162].ival = 1}

\* C5 as claimed: with several predicates satisfied in the same step, the
\* recorded reason is that of the first satisfied one in declared order
C5_Original ==
    [][(pc = "termination" /\ Satisfied(ball) # {}) =>
         \A c \in Satisfied(ball) : ball'[6].ival <= c]_vars

\* C5 amended: with several predicates satisfied in the same step, the
\* recorded reason is that of the last satisfied one in declared order
C5_LastSatisfiedWins ==
    [][(pc = "termination" /\ Satisfied(ball) # {}) =>
         /\ ball'[6].ival \in Satisfied(ball)
         /\ \A c \in Satisfied(ball) : ball'[6].ival >= c]_vars

\* termination has recorded ground impact while the time limit also held
C5_Witness ==
    /\ pc = "modules"
    /\ Satisfied(ball) = {1, 2}
    /\ ball[6].ival = 2
    /\ ball[5].ival = 1

\* C6: stop = 1 exactly when lconv is one of the reasons 1..4, and stop = 0
\* exactly when lconv = 0
C6_StopIffReason ==
    /\ ball[5].ival = 1 <=> ball[6].ival \in 1..4
    /\ ball[5].ival = 0 <=> ball[6].ival = 0

\* termination has stopped the run for a recorded reason
C6_Witness == pc = "modules" /\ ball[5].ival = 1 /\ ball[6].ival = 4

---------------------------------------------------------------------------
(* guidance_proportional_nav: proportional navigation with circular limiter *)

GuidSlots == {0, 30, 81, 87, 88, 101, 106, 107, 110, 111}

\* Vehicle::def_guidance, with the inputs defined by their modules
GuidBall ==
    [i \in GuidSlots |->
        CASE i = 0   -> RealSlot("grav", "environment", "out")
          [] i = 30  -> RealSlot("gmax", "aerodynamics", "out")
          [] i = 81  -> RealSlot("dvta", "seeker", "out")
          [] i = 87  -> VecSlot("UTAA", "seeker", "out")
          [] i = 88  -> VecSlot("WOEA", "seeker", "out")
          [] i = 101 -> RealSlot("gnav", "guidance", "data")
          [] i = 106 -> RealSlot("annx", "guidance", "diag")
          [] i = 107 -> RealSlot("allx", "guidance", "diag")
          [] i = 110 -> RealSlot("ancomx", "guidance", "out")
          [] i = 111 -> RealSlot("alcomx", "guidance", "out")]

\* Matrix::skew_sym of W times the vector U: the cross product W x U
SkewSymTimes(W, U) ==
    << RMul(W[2], U[3]) - RMul(W[3], U[2]),
       RMul(W[3], U[1]) - RMul(W[1], U[3]),
       RMul(W[1], U[2]) - RMul(W[2], U[1]) >>

\* cos(phi) and sin(phi) of the limiter: phi is 0 when either component is
\* below SMALL (zero at the resolution of a hundredth), atan2(annx, allx)
\* otherwise, whose cosine and sine are allx and annx over the magnitude
CosPhi(annx, allx) ==
    IF Fabs(annx) = 0 \/ Fabs(allx) = 0 THEN 100
    ELSE RDiv(allx, VecAbsolute(<<allx, annx, 0>>))

SinPhi(annx, allx) ==
    IF Fabs(annx) = 0 \/ Fabs(allx) = 0 THEN 0
    ELSE RDiv(annx, VecAbsolute(<<allx, annx, 0>>))

\* Vehicle::guidance
Guidance(b) ==
    LET gnav == b[101].rval
        grav == b[0].rval
        gmax == b[30].rval
        dvta == b[81].rval
        UTAA == b[87].vec
        WOEA == b[88].vec
        APNA == VecScale(VecScale(SkewSymTimes(WOEA, UTAA), gnav), Fabs(dvta))
        annx == -RDiv(APNA[3], grav)
        allx == RDiv(APNA[2], grav)
        aax0 == VecAbsolute(<<allx, annx, 0>>)
        aax  == IF aax0 > gmax THEN gmax ELSE aax0
        alcomx == RMul(aax, CosPhi(annx, allx))
        ancomx == RMul(aax, SinPhi(annx, allx))
    IN  Gets(Gets(Gets(Gets(b, 110, ancomx), 111, alcomx), 106, annx),
             107, allx)

\* line-of-sight rates and closing speeds delivered by the seeker
LosRates == {-10, -5, 0, 5, 10}
GuidClosing == {-30000, 30000}
GmaxVals == {500, 2000}

\* the seeker's outputs of a step: target straight ahead, LOS rate WOEA
los ==
    /\ pc = "modules"
    /\ pc' = "guidance"
    /\ \E w2 \in LosRates, w3 \in LosRates, dvta \in GuidClosing :
           ball' = Gets(GetsVec(GetsVec(ball, 87, <<100, 0, 0>>),
                                88, <<0, w2, w3>>), 81, dvta)
    /\ UNCHANGED <<event_ptr_list, nevent, event_total, event_epoch, fired>>
    /\ UNCHANGED execvars

guidance ==
    /\ pc = "guidance"
    /\ pc' = "modules"
    /\ ball' = Guidance(ball)
    /\ UNCHANGED <<event_ptr_list, nevent, event_total, event_epoch, fired>>
    /\ UNCHANGED execvars

InitGuid ==
    /\ \E gmax \in GmaxVals :
           ball = Gets(Gets(Gets(GuidBall, 0, 981), 101, 300), 30, gmax)
    /\ pc = "modules"
    /\ mi = 0
    /\ order = <<>>
    /\ sim_time = 0
    /\ event_time = 0
    /\ int_step = 100
    /\ defined = <<>>
    /\ written = <<>>
    /\ stamp = <<>>
    /\ NoEvents

NextGuid == los \/ guidance

SpecGuid == InitGuid /\ [][NextGuid]_vars

---------------------------------------------------------------------------
(* actuator_first_order: first-order lag with position limits *)

MaxActTime == 300

\* the value a double holds after 0.0/0.0: every comparison with it is false
NaN == 999999999

ActSlots == {519, 520, 521, 602, 606, 615, 616, 617, 619, 620, 621}

\* Vehicle::def_actuator, with the commands defined by the autopilot
ActBall ==
    [i \in ActSlots |->
        CASE i = 519 -> RealSlot("delacx", "control", "out")
          [] i = 520 -> RealSlot("delecx", "control", "out")
          [] i = 521 -> RealSlot("delrcx", "control", "out")
          [] i = 602 -> RealSlot("dlimx", "actuator", "data")
          [] i = 606 -> RealSlot("tauact", "actuator", "data")
          [] i = 615 -> RealSlot("dela", "actuator", "state")
          [] i = 616 -> RealSlot("dele", "actuator", "state")
          [] i = 617 -> RealSlot("delr", "actuator", "state")
          [] i = 619 -> RealSlot("delax", "actuator", "out")
          [] i = 620 -> RealSlot("delex", "actuator", "out")
          [] i = 621 -> RealSlot("delrx", "actuator", "out")]

\* Vehicle::init_actuator
InitActuator(b) ==
    Gets(Gets(Gets(Gets(Gets(Gets(b, 615, 0), 616, 0), 617, 0), 619, 0),
              620, 0), 621, 0)

\* one channel of Vehicle::actuator: the lag integrated, then the position
\* limit. With tauact = 0 the derivative is the quotient by zero of IEEE
\* arithmetic: 0/0 is NaN, which passes both limit tests; x/0 is an
\* infinity of the sign of x, which the limit brings back to +-dlimx
ActuatorChannel(del, delcx, dlimx, tauact, dt) ==
    IF del = NaN THEN NaN
    ELSE IF tauact = 0
    THEN IF delcx = del THEN NaN
         ELSE IF delcx > del THEN dlimx ELSE -dlimx
    ELSE LET deld_new == RDiv(delcx - del, tauact)
             del1 == Integrate(deld_new, 0, del, dt)
             del2 == IF del1 > dlimx THEN dlimx ELSE del1
         IN  IF del2 < -dlimx THEN -dlimx ELSE del2

\* Vehicle::actuator
Actuator(b, dt) ==
    LET dlimx == b[602].rval
        tauact == b[606].rval
        dela == ActuatorChannel(b[615].rval, b[519].rval, dlimx, tauact, dt)
        dele == ActuatorChannel(b[616].rval, b[520].rval, dlimx, tauact, dt)
        delr == ActuatorChannel(b[617].rval, b[521].rval, dlimx, tauact, dt)
    IN  Gets(Gets(Gets(Gets(Gets(Gets(b, 615, dela), 616, dele), 617, delr),
                       619, dela), 620, dele), 621, delr)

\* fin commands of the autopilot (aileron, elevator, rudder), position
\* limits, time constants and steps of the scenarios
FinCmds == { <<0, 0, 0>>, <<3000, -3000, 1000>>, <<-3000, 3000, 0>>,
             <<1000, 0, -3000>> }
DlimxVals == {0, 2000}
TauactVals == {0, 5, 100}
ActSteps == {5, 100}

\* the autopilot's commands of a step
autopilot ==
    /\ pc = "modules"
    /\ sim_time < MaxActTime
    /\ pc' = "actuator"
    /\ \E c \in FinCmds :
           ball' = Gets(Gets(Gets(ball, 519, c[1]), 520, c[2]), 521, c[3])
    /\ UNCHANGED <<event_ptr_list, nevent, event_total, event_epoch, fired>>
    /\ UNCHANGED execvars

actuator ==
    /\ pc = "actuator"
    /\ pc' = "modules"
    /\ ball' = Actuator(ball, int_step)
    /\ sim_time' = sim_time + 100
    /\ UNCHANGED <<event_ptr_list, nevent, event_total, event_epoch, fired>>
    /\ UNCHANGED <<mi, order, event_time, int_step, defined, written, stamp>>

InitAct ==
    /\ \E dlimx \in DlimxVals, tauact \in TauactVals :
           ball = InitActuator(Gets(Gets(ActBall, 602, dlimx), 606, tauact))
    /\ int_step \in ActSteps
    /\ pc = "modules"
    /\ mi = 0
    /\ order = <<>>
    /\ sim_time = 0
    /\ event_time = 0
    /\ defined = <<>>
    /\ written = <<>>
    /\ stamp = <<>>
    /\ NoEvents

NextAct == autopilot \/ actuator

SpecAct == InitAct /\ [][NextAct]_vars

---------------------------------------------------------------------------
(* The freeze of propulsion_staging and newton_6dof *)

MaxFreezeTime == 400

FreezeSlots ==
    {0, 10, 11, 15, 16, 17, 18, 21, 22, 23, 24, 25, 26, 27, 28, 29, 33, 36,
     37, 38, 39, 40, 41, 42, 43, 44, 45, 52, 225, 247, 248, 503}

\* the slots of Vehicle::def_newton that the freeze block uses, and the
\* freeze flag
DefNewtonFreeze(b) ==
    [b EXCEPT ![225] = RealSlot("dvbe", "newton", "init,out"),
              ![247] = IntSlot("mfreeze_newt", "newton", "save"),
              ![248] = RealSlot("dvbef", "newton", "save"),
              ![503] = IntSlot("mfreeze", "control", "data")]

\* DATA section of the propulsion of the frozen runs
FreezeData ==
    { << [name |-> "mprop", value |-> 300],
         [name |-> "vmass0", value |-> 1000],
         [name |-> "fmass0", value |-> fm],
         [name |-> "spi", value |-> 29000],
         [name |-> "fuel_flow_rate", value |-> 150],
         [name |-> "moi_roll_0", value |-> 1500],
         [name |-> "moi_roll_1", value |-> 300],
         [name |-> "moi_trans_0", value |-> 15000],
         [name |-> "moi_trans_1", value |-> 3000],
         [name |-> "xcg_0", value |-> 350],
         [name |-> "xcg_1", value |-> 420] >> : fm \in {300, 900} }

\* Vehicle::newton, the freeze block and the stores of the speed; dvbe is
\* the geographic speed the module has computed from the integrated state
NewtonFreeze(b, dvbe) ==
    LET mfreeze == b[503].ival
        capture == FreezeCapture(mfreeze, b[247].ival)
        mfreeze_newt == IF mfreeze = 0 THEN 0 ELSE mfreeze
        dvbef == IF capture THEN dvbe ELSE b[248].rval
        dvbe_out == IF mfreeze = 0 THEN dvbe ELSE dvbef
    IN  [b EXCEPT ![247].ival = mfreeze_newt,
                  ![248].rval = dvbef,
                  ![225].rval = dvbe_out]

\* values of the freeze flag, and speeds of the vehicle
MfreezeVals == {0, 1, 2}
SpeedVals == {20000, 25000}

\* the freeze flag as set for the coming step
freeze_cmd ==
    /\ pc = "modules"
    /\ sim_time < MaxFreezeTime
    /\ pc' = "propulsion"
    /\ \E mf \in MfreezeVals : ball' = GetsInt(ball, 503, mf)
    /\ UNCHANGED <<event_ptr_list, nevent, event_total, event_epoch, fired>>
    /\ UNCHANGED execvars

propulsion ==
    /\ pc = "propulsion"
    /\ pc' = "newton"
    /\ ball' = Propulsion(ball, int_step)
    /\ UNCHANGED <<event_ptr_list, nevent, event_total, event_epoch, fired>>
    /\ UNCHANGED execvars

newton ==
    /\ pc = "newton"
    /\ pc' = "modules"
    /\ \E dvbe \in SpeedVals : ball' = NewtonFreeze(ball, dvbe)
    /\ sim_time' = sim_time + int_step
    /\ UNCHANGED <<event_ptr_list, nevent, event_total, event_epoch, fired>>
    /\ UNCHANGED <<mi, order, event_time, int_step, defined, written, stamp>>

InitFreeze ==
    /\ \E data \in FreezeData :
           ball = LoadData(DefNewtonFreeze(DefPropulsion(
                               [i \in FreezeSlots |-> EmptySlot])), data, 1)
    /\ pc = "modules"
    /\ mi = 0
    /\ order = <<>>
    /\ sim_time = 0
    /\ event_time = 0
    /\ int_step = 100
    /\ defined = <<>>
    /\ written = <<>>
    /\ stamp = <<>>
    /\ NoEvents

NextFreeze == freeze_cmd \/ propulsion \/ newton

SpecFreeze == InitFreeze /\ [][NextFreeze]_vars

---------------------------------------------------------------------------
(* Properties of the composed sims *)

\* C8: with time limit and ground impact configured, termination sets stop
\* with reason ground impact (2), never time limit (1), at the step at
\* which altitude <= min_alt, and records that reason at no other step
C8_GroundReason ==
    [][(pc = "exec" /\ order[mi] = "termination") =>
         /\ ball[22].rval <= ball[8].rval =>
                ball'[5].ival = 1 /\ ball'[6].ival = 2
         /\ ball'[6].ival = 2 => ball[22].rval <= ball[8].rval]_vars

\* a flight with endtime = 10 and min_alt = 0 has come down before the
\* end time and the run has ended with the ground impact reason
C8_Witness ==
    /\ pc = "done"
    /\ ball[7].rval = 1000
    /\ ball[8].rval = 0
    /\ ball[28].rval = -3536
    /\ ball[22].rval = 0
    /\ ball[5].ival = 1
    /\ ball[6].ival = 2
    /\ sim_time > 300
    /\ sim_time < 1000

\* C9: during the exec phase a module writes only slots whose role is
\* state, save, out, diag or exec, never a data or init slot
C9_ExecWritesByRole ==
    \A i \in DOMAIN written :
        written[i] # {} =>
            ball[i].role \in {"state", "save", "out", "diag", "exec"}

\* position of module m in the module list
IndexOf(m) == CHOOSE k \in 1..Len(order) : order[k] = m

\* the value the time module wrote last
TimeWritten ==
    IF IndexOf("time") < IndexOf("termination") \/ sim_time = 0
    THEN sim_time
    ELSE sim_time - int_step

\* C10: in MyProjectile every slot is defined by exactly one module, every
\* slot written during exec has exactly one writing module, and
\* termination reads from the time slot the value the time module wrote
C10_UniqueWriters ==
    /\ \A i \in DOMAIN defined : Cardinality(defined[i]) <= 1
    /\ \A i \in DOMAIN written : Cardinality(written[i]) <= 1
    /\ (pc = "exec" /\ order[mi] = "termination") =>
           ball[0].rval = TimeWritten

\* the exec function of module m runs in this step
Ran(m) ==
    \E i \in ExecWrites(m) :
        stamp'[i] = [by |-> m, t |-> sim_time] /\ stamp'[i] # stamp[i]

\* C11: within one step a module reads, from a slot last written by a
\* module declared before it, the value written in that same step, and from
\* a slot last written by a module declared after it, the value written in
\* the previous step
C11_DeclaredOrderVisibility ==
    [][\A r \in {order[k] : k \in 1..Len(order)} :
          Ran(r) =>
             \A i \in ExecReads(r) :
                 stamp[i].by \notin {"none", r} =>
                     IF IndexOf(stamp[i].by) < IndexOf(r)
                     THEN stamp[i].t = sim_time
                     ELSE stamp[i].t = sim_time - int_step]_vars

\* in the order environment, kinematics, forces: forces has run on the
\* velocity kinematics wrote in the same step, after kinematics ran on the
\* specific force of the previous step
C11_Witness ==
    /\ pc = "exec"
    /\ order = <<"gravity", "kinematics", "forces", "time", "termination">>
    /\ mi = 4
    /\ sim_time = 200
    /\ stamp[21] = [by |-> "kinematics", t |-> 200]
    /\ stamp[14] = [by |-> "forces", t |-> 200]
    /\ ball[13].rval = VecAbsolute(ball[21].vec)
    /\ ball[13].rval > 0

C13_Original ==
    [][(Ran("kinematics") /\ ball'[22].rval > 0) =>
         \A j \in 1..3 :
             ball'[20].vec[j] =
                 Integrate(ball'[21].vec[j], ball[21].vec[j],
                           ball[20].vec[j], int_step)]_vars

\* C13 amended: after each exec of kinematics above ground the velocity
\* equals prev_velocity + step * acceleration and the position equals
\* prev_position + step * new_velocity
C13_EulerKinematics ==
    [][(Ran("kinematics") /\ ball'[22].rval > 0) =>
         /\ ball'[21].vec =
                VecAdd(ball[21].vec, VecScale(ball[14].vec, int_step))
         /\ ball'[20].vec =
                VecAdd(ball[20].vec, VecScale(ball'[21].vec, int_step))]_vars

\* kinematics has advanced a climbing vehicle under gravity for two steps
C13_Witness ==
    /\ pc = "exec"
    /\ stamp[20] = [by |-> "kinematics", t |-> sim_time]
    /\ sim_time >= 200
    /\ ball[22].rval > 0
    /\ ball[14].vec[3] = 981
    /\ ball[21].vec[3] # ball[28].rval
    /\ ball[21].vec[3] < 0

\* C14: on the first exec step of propulsion_staging at constant thrust the
\* fuel mass expended equals step * thrust / (spi * g), the first-computed
\* derivative times the step (forward Euler)
C14_FirstStepEuler ==
    [][(Ran("propulsion") /\ sim_time = 0 /\ ball[10].ival \in {3, 4}
                          /\ ball[25].rval # 0) =>
         ball'[22].rval = RMul(int_step, ball'[23].rval)]_vars

\* the engine of propulsion_staging burns at constant thrust
Burning(b) == b[10].ival \in {3, 4} /\ b[25].rval # 0 /\ b[33].rval > 0

C16_NozzleWithinLimit ==
    ball[900].ival = 2 =>
        /\ Fabs(ball[912].rval) <= ball[902].rval
        /\ Fabs(ball[913].rval) <= ball[902].rval
        /\ Fabs(ball[918].rval) <= RadOf(ball[902].rval)
        /\ Fabs(ball[919].rval) <= RadOf(ball[902].rval)

\* C17: intercept_flag changes from 0 to 1 only at a step with
\* dta < detect_range at which the closing velocity went from positive to
\* non-positive, miss and tintercept then record the range and time of
\* that step, and once the flag is 1 the flag, miss and tintercept keep
\* their values at every later step
C17_InterceptLatch ==
    [][pc = "intercept" =>
         /\ (ball[162].ival = 0 /\ ball'[162].ival = 1) =>
                /\ ball[80].rval < ball[163].rval
                /\ ball[164].rval > 0
                /\ ball[81].rval <= 0
                /\ ball'[160].rval = ball[80].rval
                /\ ball'[161].rval = ball[0].rval
         /\ ball[162].ival = 1 =>
                /\ ball'[162].ival = 1
                /\ ball'[160].rval = ball[160].rval
                /\ ball'[161].rval = ball[161].rval]_vars

\* a detection has been recorded at an earlier step, and the geometry
\* crosses again inside the detection sphere at another range
C17_Witness ==
    /\ pc = "intercept"
    /\ ball[162].ival = 1
    /\ ball[164].rval > 0
    /\ ball[81].rval <= 0
    /\ ball[80].rval < ball[163].rval
    /\ ball[80].rval # ball[160].rval
    /\ ball[161].rval + 2 * int_step <= ball[0].rval

\* C18: in the ballistic configuration with drag_simple (gravity 9.81, drag
\* coefficient 0) a vehicle launched from altitude 0 with upward velocity
\* vbel3 < 0 is back at altitude 0 when the run ends (a flight under
\* gravity from at most 35.36 m/s lasts less than the run)
C18_ReturnsToGround ==
    (pc = "done" /\ ball[28].rval < 0) => ball[22].rval = 0

C20_BoundAsNamed ==
    (pc = "event" /\ event_total # 0)
        => LET e == event_ptr_list[nevent]
           IN  /\ e.watch # NullVar
               /\ ball[e.watch].name = e.name
               /\ ball[e.watch].type \in {"int", "real"}

\* C21: after guidance, the limited pair (ancomx, alcomx) points as the
\* unrestricted pair (annx, allx): a zero component stays zero, a non-zero
\* component keeps its sign, and when only one component is non-zero the
\* output on that axis has the magnitude min(|(annx, allx)|, gmax)
C21_LimiterKeepsDirection ==
    pc = "modules" =>
        LET annx == ball[106].rval
            allx == ball[107].rval
            ancomx == ball[110].rval
            alcomx == ball[111].rval
            gmax == ball[30].rval
        IN  /\ annx = 0 => ancomx = 0
            /\ allx = 0 => alcomx = 0
            /\ annx # 0 => Sign(ancomx) = Sign(annx) /\ ancomx # 0
            /\ allx # 0 => Sign(alcomx) = Sign(allx) /\ alcomx # 0
            /\ (allx = 0 /\ annx # 0) =>
                   Fabs(ancomx) = IF Fabs(annx) > gmax THEN gmax ELSE Fabs(annx)
            /\ (annx = 0 /\ allx # 0) =>
                   Fabs(alcomx) = IF Fabs(allx) > gmax THEN gmax ELSE Fabs(allx)

\* C22: after every exec of kinematics the altitude is >= 0, and when it
\* is 0 the vertical position SBEL[3] is 0 and the velocity VBEL is zero
C22_StopsAtGround ==
    [][(pc = "exec" /\ order[mi] = "kinematics") =>
          /\ ball'[22].rval >= 0
          /\ ball'[22].rval = 0 =>
                 /\ ball'[20].vec[3] = 0
                 /\ ball'[21].vec = <<0, 0, 0>>]_vars

\* kinematics has brought a vehicle that was in flight down to the ground
C22_Witness ==
    /\ stamp[22].by = "kinematics"
    /\ ball[22].rval = 0
    /\ ball[21].vec = <<0, 0, 0>>
    /\ ball[20].vec[1] > 2 * 3536

\* C23: the three deflections of the first-order actuator, states and
\* outputs, lie in [-dlimx, +dlimx] (dlimx >= 0) after every exec, for every
\* command sequence, time constant and step
C23_DeflectionWithinLimit ==
    \A i \in {615, 616, 617, 619, 620, 621} :
        /\ ball[i].rval # NaN
        /\ -ball[602].rval <= ball[i].rval
        /\ ball[i].rval <= ball[602].rval

\* C24: every exec of the target module advances the target position STEL
\* by int_step * VTEL, the configured velocity, and stores the same position
\* in the state slot 208 and in the output slot 200
C24_MovesAtVelocity ==
    [][(pc = "exec" /\ order[mi] = "target") =>
          /\ \A j \in 1..3 :
                 ball'[208].vec[j] =
                     ball[208].vec[j] + RMul(int_step, ball[204 + j].rval)
          /\ ball'[200].vec = ball'[208].vec]_vars

\* the outputs propulsion computes from b when nothing is frozen
LiveOutputs(b) ==
    LET live == Propulsion(GetsInt(b, 503, 0), int_step)
    IN  <<live[26].rval, live[15].rval, live[18].vec>>

\* C25: in a step of propulsion with mfreeze held at the non-zero value of
\* the step before, thrust, mass and inertia stay as they are and nothing is
\* captured; in a step with mfreeze changed to a new non-zero value they are
\* the live values of that step, which are captured; with mfreeze = 0 they
\* are the live values. The speed of newton is held and captured alike
C25_FreezeLatch ==
    [][/\ pc = "propulsion" =>
            LET mfreeze == ball[503].ival
                out == <<ball[26].rval, ball[15].rval, ball[18].vec>>
                out1 == <<ball'[26].rval, ball'[15].rval, ball'[18].vec>>
                saved == <<ball[43].rval, ball[44].rval, ball[45].vec>>
                saved1 == <<ball'[43].rval, ball'[44].rval, ball'[45].vec>>
            IN  /\ (mfreeze # 0 /\ mfreeze = ball[42].ival) =>
                       out1 = out /\ saved1 = saved
                /\ (mfreeze # 0 /\ mfreeze # ball[42].ival) =>
                       out1 = LiveOutputs(ball) /\ saved1 = out1
                /\ mfreeze = 0 => out1 = LiveOutputs(ball)
                /\ ball'[42].ival = mfreeze
       /\ pc = "newton" =>
            LET mfreeze == ball[503].ival
            IN  /\ (mfreeze # 0 /\ mfreeze = ball[247].ival) =>
                       /\ ball'[225].rval = ball[225].rval
                       /\ ball'[248].rval = ball[248].rval
                /\ (mfreeze # 0 /\ mfreeze # ball[247].ival) =>
                       ball'[225].rval = ball'[248].rval
                /\ ball'[247].ival = mfreeze]_vars

\* a freeze has been held over a step in which the engine burned fuel: the
\* mass output is the captured one, not the live one
C25_Witness ==
    /\ pc = "newton"
    /\ ball[503].ival # 0
    /\ ball[42].ival = ball[503].ival
    /\ ball[10].ival > 0
    /\ ball[15].rval = ball[44].rval
    /\ ball[15].rval > ball[16].rval - ball[22].rval

\* C26: a call of Ball::event fires at most one event; event k fires only
\* in a call made after events 0..k-1 have all fired; and once the last
\* declared event has fired a call changes no slot
C26_OneEventInOrder ==
    [][pc = "event" =>
          LET firing == {k \in DOMAIN fired : fired'[k] # fired[k]}
              last == Cardinality(DOMAIN event_ptr_list) - 1
          IN  /\ Cardinality(firing) <= 1
              /\ \A k \in firing :
                     /\ fired'[k] = fired[k] + 1
                     /\ \A j \in 0..(k - 1) : fired[j] >= 1
              /\ (last >= 0 /\ fired[last] >= 1) =>
                     ball' = ball /\ firing = {}]_vars

\* both declared events have fired, and the engine has been called again
C26_Witness ==
    /\ pc = "modules"
    /\ DOMAIN fired = 0..1
    /\ fired[0] = 1 /\ fired[1] = 1
    /\ event_total = 0
    /\ event_epoch = FALSE

\* C27: after every exec of propulsion the remaining fuel fmassr is >= 0,
\* the fuel expended fmasse is <= fmass0 and not less than before the exec,
\* and the vehicle mass vmass is >= vmass0 - fmass0
C27_FuelAndMassBounds ==
    [][Ran("propulsion") =>
          /\ ball'[27].rval >= 0
          /\ ball'[22].rval <= ball[21].rval
          /\ ball'[22].rval >= ball[22].rval
          /\ ball'[15].rval >= ball[16].rval - ball[21].rval]_vars

\* C28: with kinematics and termination composed and min_alt below zero, a
\* run in which the vehicle has flown and come down to the ground ends with
\* stop = 1 and the ground impact reason lconv = 2
C28_GroundImpactStops ==
    (/\ pc = "done"
     /\ ball[8].rval < 0
     /\ ball[22].rval = 0
     /\ ball[21].vec = <<0, 0, 0>>
     /\ ball[20].vec[1] > 0)
        => ball[5].ival = 1 /\ ball[6].ival = 2

\* C29: in the BALL3 example the slot forces reads as VBEL is the slot
\* kinematics defines as VBEL, and the speed dvbe forces stores is the
\* magnitude of the velocity VBEL kinematics has written
C29_ForcesReadsVelocity ==
    [][Ran("forces_ex") =>
          /\ ball[ForcesVbelIndex].name = "VBEL"
          /\ ball'[13].rval = VecAbsolute(ball[21].vec)]_vars

=============================================================================
